---- MODULE Spec2Model ----
(***************************************************************************)
(* adstex: resolve the citation keys of LaTeX documents against NASA ADS   *)
(* and merge the fetched bibtex records into a bibliography file.          *)
(*                                                                         *)
(* Python strings are modelled as sequences of one-character strings, so   *)
(* that the regular expressions, int(), unquote() and the name-prefix      *)
(* rewrite of the source are computed character by character.              *)
(* Python's None and '' are both the empty sequence: the source only ever  *)
(* tests such values for truth (`if bibcode:`, `while c:`).                *)
(***************************************************************************)
EXTENDS Integers, Sequences, FiniteSets, TLC

\* ------------------------------------------------------------------ bounds
\* Number of citation keys found in the documents.
NumKeys == 2
\* Largest number of candidates an author/year search returns.
MaxCand == 2
\* Largest number of catalog queries issued while resolving one key.
MaxQueries == 3
\* Largest number of inputs the operator types for one key, where they are logged.
MaxTyped == 2

\* ----------------------------------------------------------------- strings
None == << >>

Digit == {"0", "1", "2", "3", "4", "5", "6", "7", "8", "9"}
Lower == {"a", "b", "c", "d", "e", "f", "g", "h", "i", "j", "k", "l", "m",
          "n", "o", "p", "q", "r", "s", "t", "u", "v", "w", "x", "y", "z"}
Upper == {"A", "B", "C", "D", "E", "F", "G", "H", "I", "J", "K", "L", "M",
          "N", "O", "P", "Q", "R", "S", "T", "U", "V", "W", "X", "Y", "Z"}
Letter == Lower \cup Upper
\* \s of the re module, as far as the strings of the model go
Whitespace == {" "}

Take(s, n) == SubSeq(s, 1, n)
Drop(s, n) == SubSeq(s, n + 1, Len(s))

\* the number of leading characters of s that lie in the class C (greedy X*)
RECURSIVE Span(_, _)
Span(s, C) == IF s # << >> /\ Head(s) \in C THEN 1 + Span(Tail(s), C) ELSE 0

\* the number of leading characters of s that are not in the class C
RECURSIVE SpanNot(_, _)
SpanNot(s, C) == IF s # << >> /\ Head(s) \notin C THEN 1 + SpanNot(Tail(s), C) ELSE 0

StartsWith(s, p) == Len(s) >= Len(p) /\ Take(s, Len(p)) = p

\* str.lower()
LowerOf(c) ==
    CASE c = "A" -> "a" [] c = "B" -> "b" [] c = "C" -> "c" [] c = "D" -> "d"
      [] c = "E" -> "e" [] c = "F" -> "f" [] c = "G" -> "g" [] c = "H" -> "h"
      [] c = "I" -> "i" [] c = "J" -> "j" [] c = "K" -> "k" [] c = "L" -> "l"
      [] c = "M" -> "m" [] c = "N" -> "n" [] c = "O" -> "o" [] c = "P" -> "p"
      [] c = "Q" -> "q" [] c = "R" -> "r" [] c = "S" -> "s" [] c = "T" -> "t"
      [] c = "U" -> "u" [] c = "V" -> "v" [] c = "W" -> "w" [] c = "X" -> "x"
      [] c = "Y" -> "y" [] c = "Z" -> "z" [] OTHER -> c
lower(s) == [i \in 1..Len(s) |-> LowerOf(s[i])]

\* str.strip() of whitespace at both ends
RECURSIVE rstrip(_)
rstrip(s) == IF s # << >> /\ s[Len(s)] \in Whitespace THEN rstrip(Take(s, Len(s) - 1)) ELSE s
strip(s) == rstrip(Drop(s, Span(s, Whitespace)))

DigitValue(c) ==
    CASE c = "0" -> 0 [] c = "1" -> 1 [] c = "2" -> 2 [] c = "3" -> 3 [] c = "4" -> 4
      [] c = "5" -> 5 [] c = "6" -> 6 [] c = "7" -> 7 [] c = "8" -> 8 [] c = "9" -> 9
DigitChar(n) ==
    CASE n = 0 -> "0" [] n = 1 -> "1" [] n = 2 -> "2" [] n = 3 -> "3" [] n = 4 -> "4"
      [] n = 5 -> "5" [] n = 6 -> "6" [] n = 7 -> "7" [] n = 8 -> "8" [] n = 9 -> "9"

\* the value of a non-empty string of decimal digits
RECURSIVE DigitsValue(_)
DigitsValue(s) ==
    IF s = << >> THEN 0 ELSE 10 * DigitsValue(Take(s, Len(s) - 1)) + DigitValue(s[Len(s)])

\* int(s): << n >> when s, stripped of whitespace, is an optional sign and one
\* or more digits; << >> when int() raises ValueError
int(s) ==
    LET t == strip(s)
        signed == t # << >> /\ Head(t) \in {"+", "-"}
        d == IF signed THEN Tail(t) ELSE t
    IN  IF d # << >> /\ Span(d, Digit) = Len(d)
        THEN << (IF signed /\ Head(t) = "-" THEN -1 ELSE 1) * DigitsValue(d) >>
        ELSE << >>

\* str(n) of a natural number
RECURSIVE str(_)
str(n) == IF n < 10 THEN << DigitChar(n) >> ELSE str(n \div 10) \o << DigitChar(n % 10) >>

\* ------------------------------------------------------ the recognizer
\* date.today().year; _this_year and _this_cent are computed from it at import
today_year == 2026
\* `date.today().year % 100` and `date.today().year / 100` when the year is today
this_year(today) == today % 100
this_cent(today) == today \div 100
_this_year == this_year(today_year)
_this_cent == this_cent(today_year)

\* (?:\.\d+)* : the number of characters it consumes at the start of s
RECURSIVE DotDigits(_)
DotDigits(s) ==
    IF Len(s) >= 2 /\ s[1] = "." /\ s[2] \in Digit
    THEN LET n == 1 + Span(Tail(s), Digit) IN n + DotDigits(Drop(s, n))
    ELSE 0

\* _re_id['doi'].match(s): the length of the match, 0 when there is none.
\* 10\.\d{4,}(?:\.\d+)*\/(?:(?!['"&<>])\S)+
_re_doi(s) ==
    IF ~StartsWith(s, << "1", "0", "." >>) THEN 0
    ELSE LET d == Span(Drop(s, 3), Digit)
             g == DotDigits(Drop(s, 3 + d))
             r == Drop(s, 3 + d + g)
             x == IF r # << >> /\ Head(r) = "/"
                  THEN SpanNot(Tail(r), Whitespace \cup {"'", "\"", "&", "<", ">"})
                  ELSE 0
         IN  IF d >= 4 /\ x >= 1 THEN 3 + d + g + 1 + x ELSE 0

\* a variant of _re_bibcode: \d{4}\D\S*[A-Z.:]$, the count {13} left out
_re_bibcode_any(s) ==
    IF /\ Len(s) >= 6
       /\ Span(s, Digit) >= 4
       /\ s[5] \notin Digit
       /\ SpanNot(Drop(s, 5), Whitespace) = Len(s) - 5
       /\ s[Len(s)] \in Upper \cup {".", ":"}
    THEN Len(s) ELSE 0

\* _re_id['bibcode'].match(s):  \d{4}\D\S{13}[A-Z.:]$
_re_bibcode(s) ==
    IF /\ Len(s) = 19
       /\ Span(s, Digit) >= 4
       /\ s[5] \notin Digit
       /\ SpanNot(Drop(s, 5), Whitespace) >= 13
       /\ s[19] \in Upper \cup {".", ":"}
    THEN 19 ELSE 0

\* _re_id['arxiv'].match(s):  (?:\d{4}\.\d{4,5}|[a-z-]+(?:\.[A-Za-z-]+)?\/\d{7})
_re_arxiv(s) ==
    LET new == IF Span(s, Digit) >= 4 /\ Len(s) >= 5 /\ s[5] = "."
               THEN LET n == Span(Drop(s, 5), Digit)
                    IN  IF n >= 5 THEN 10 ELSE IF n = 4 THEN 9 ELSE 0
               ELSE 0
        a   == Span(s, Lower \cup {"-"})
        r   == Drop(s, a)
        sub == IF Len(r) >= 2 /\ r[1] = "." /\ r[2] \in Letter \cup {"-"}
               THEN 1 + Span(Tail(r), Letter \cup {"-"}) ELSE 0
        q   == Drop(r, sub)
        old == IF a >= 1 /\ q # << >> /\ Head(q) = "/" /\ Span(Tail(q), Digit) >= 7
               THEN a + sub + 8 ELSE 0
    IN  IF new > 0 THEN new ELSE old

\* _re_id[id_type].match(s)
_re_id(id_type, s) ==
    CASE id_type = "bibcode" -> _re_bibcode(s)
      [] id_type = "arxiv"   -> _re_arxiv(s)
      [] id_type = "doi"     -> _re_doi(s)

\* _re_fayear.match(s).groups(): << fa, y >>, or << >> when there is no match.
\* ([A-Za-z_-]+):?((?:\d{2})?\d{2})
_re_fayear(s) ==
    LET a  == Span(s, Letter \cup {"_", "-"})
        r  == Drop(s, a)
        r2 == IF r # << >> /\ Head(r) = ":" THEN Tail(r) ELSE r
        d  == Span(r2, Digit)
    IN  IF a >= 1 /\ d >= 2
        THEN << Take(s, a), Take(r2, IF d >= 4 THEN 4 ELSE 2) >>
        ELSE << >>

\* sorted(seq, key=len, reverse=True): a stable sort, longest first
RECURSIVE SortLongestFirst(_)
SortLongestFirst(seq) ==
    IF seq = << >> THEN << >>
    ELSE LET rest == SortLongestFirst(Take(seq, Len(seq) - 1))
             x    == seq[Len(seq)]
             n    == Cardinality({i \in 1..Len(rest) : Len(rest[i]) >= Len(x)})
         IN  Take(rest, n) \o << x >> \o Drop(rest, n)

_name_prefix ==
    SortLongestFirst(<<
        << "v", "a", "n" >>,
        << "d", "e" >>,
        << "d", "e", "n" >>,
        << "d", "e", "r" >>,
        << "v", "a", "n", " ", "d", "e" >>,
        << "v", "a", "n", " ", "d", "e", "n" >>,
        << "v", "a", "n", " ", "d", "e", "r" >>,
        << "v", "o", "n", " ", "d", "e", "r" >> >>)

\* prefix.replace(' ', '')
RECURSIVE RemoveSpaces(_)
RemoveSpaces(s) ==
    IF s = << >> THEN << >>
    ELSE (IF Head(s) = " " THEN << >> ELSE << Head(s) >>) \o RemoveSpaces(Tail(s))

\* a variant of _match_name_prefix: the prefixes are tried shortest first
_match_name_prefix_shortest(name) ==
    LET hits == {i \in 1..Len(_name_prefix) :
                    StartsWith(lower(name), RemoveSpaces(_name_prefix[i]))}
    IN  IF hits = {} THEN None
        ELSE LET i      == CHOOSE h \in hits : \A g \in hits : h >= g
                 prefix == _name_prefix[i]
             IN  prefix \o << " " >> \o Drop(name, Len(RemoveSpaces(prefix)))

\* _match_name_prefix(name): the name with the first matching prefix split off
\* by a space, None when no prefix matches
_match_name_prefix(name) ==
    LET hits == {i \in 1..Len(_name_prefix) :
                    StartsWith(lower(name), RemoveSpaces(_name_prefix[i]))}
    IN  IF hits = {} THEN None
        ELSE LET i      == CHOOSE h \in hits : \A g \in hits : h <= g
                 prefix == _name_prefix[i]
             IN  prefix \o << " " >> \o Drop(name, Len(RemoveSpaces(prefix)))

\* a variant of y2toy4: `y2 >= _this_year`
y2toy4_ge(today, y2) ==
    LET y == int(y2)[1]
        k == IF y >= this_year(today) THEN 1 ELSE 0
    IN  str((this_cent(today) - k) * 100 + y)

\* _y2toy4(y2) in a process started in the year today: Python 2 integer
\* arithmetic, the result formatted by str()
y2toy4(today, y2) ==
    LET y == int(y2)[1]
        k == IF y > this_year(today) THEN 1 ELSE 0
    IN  str((this_cent(today) - k) * 100 + y)

_y2toy4(y2) == y2toy4(today_year, y2)

\* ------------------------------------------------------------ the catalog
\* The bibcodes of the catalog's records, in the order an author/year search
\* ranks them.  The code treats a bibcode as an opaque non-empty string.
Ranked == << << "A", "&", "A", "1" >>, << "A", "p", "J", "2" >>, << "M", "N", "3" >> >>
Bibcodes == {Ranked[i] : i \in 1..Len(Ranked)}

\* what the first record of an exact lookup can be: a bibcode, or None when
\* the query has no result (StopIteration)
Results == Bibcodes \cup {None}

\* what list(ads.SearchQuery(..., rows=20)) can be: no record, or the
\* first n records of the ranking
SearchResults == {Take(Ranked, n) : n \in 0..MaxCand}

\* urllib.quote as the export service applies it to the bibcode in adsurl
RECURSIVE quote(_)
quote(s) ==
    IF s = << >> THEN << >>
    ELSE (IF Head(s) = "&" THEN << "%", "2", "6" >> ELSE << Head(s) >>) \o quote(Tail(s))

UrlBase == << "h", "t", "t", "p", ":", "/", "/", "a", "d", "s", "/", "a", "b", "s", "/" >>
AdsUrl(b) == UrlBase \o quote(b)

\* ads.ExportQuery(bibcodes, 'bibtex').execute(), parsed by bibtexparser.loads:
\* one entry for each bibcode, its ID the bibcode
Export(bibcodes) == {[ID |-> b, adsurl |-> AdsUrl(b)] : b \in bibcodes}

\* --------------------------------------------------------- the store
\* urllib.unquote: %XX becomes the character of that code (the codes of the
\* characters the model writes), any other character is kept
RECURSIVE unquote(_)
unquote(s) ==
    IF s = << >> THEN << >>
    ELSE IF StartsWith(s, << "%", "2", "6" >>) THEN << "&" >> \o unquote(Drop(s, 3))
    ELSE IF StartsWith(s, << "%", "2", "F" >>) THEN << "/" >> \o unquote(Drop(s, 3))
    ELSE IF StartsWith(s, << "%", "2", "5" >>) THEN << "%" >> \o unquote(Drop(s, 3))
    ELSE << Head(s) >> \o unquote(Tail(s))

\* s.rpartition('/')[-1]: what follows the last '/', all of s when it has none
RECURSIVE AfterLast(_, _)
AfterLast(s, sep) ==
    IF s = << >> THEN << >>
    ELSE IF s[Len(s)] = sep THEN << >>
    ELSE AfterLast(Take(s, Len(s) - 1), sep) \o << s[Len(s)] >>

\* entry.get(field, '')
Get(entry, field) == IF field \in DOMAIN entry THEN entry[field] ELSE << >>

extract_bibcode(entry) == unquote(AfterLast(Get(entry, "adsurl"), "/"))

\* the exchange with the catalog entry2bibcode has for a field of the entry:
\* the query and the bibcode of its first result (None when it has none)
EntryQuery(entry, field, result) ==
    CASE field = "adsurl" ->
            [field |-> "bibcode", value |-> extract_bibcode(entry), year |-> << >>, result |-> result]
      [] field = "doi" ->
            [field |-> "doi", value |-> entry.doi, year |-> << >>, result |-> result]
      [] field = "eprint" ->
            [field |-> "arxiv", value |-> entry.eprint, year |-> << >>, result |-> result]

\* entry2bibcode(entry), given the catalog's answer ans[f] to the query for
\* each field f: the bibcode returned and the queries issued
RECURSIVE entry2bibcodeFrom(_, _, _)
entry2bibcodeFrom(entry, fields, ans) ==
    IF fields = << >> THEN [bibcode |-> None, queries |-> << >>]
    ELSE IF Head(fields) \notin DOMAIN entry THEN entry2bibcodeFrom(entry, Tail(fields), ans)
    ELSE LET q == EntryQuery(entry, Head(fields), ans[Head(fields)])
         IN  IF ans[Head(fields)] # None
             THEN [bibcode |-> ans[Head(fields)], queries |-> << q >>]
             ELSE LET rest == entry2bibcodeFrom(entry, Tail(fields), ans)
                  IN  [bibcode |-> rest.bibcode, queries |-> << q >> \o rest.queries]

entry2bibcode(entry, ans) == entry2bibcodeFrom(entry, << "adsurl", "doi", "eprint" >>, ans)

\* BibDatabase.entries_dict of a list of entries with distinct IDs
entries_dict(es) == [id \in {e.ID : e \in es} |-> CHOOSE e \in es : e.ID = id]

\* a variant of update_bib: the store is replaced by the new entries
update_bib_replace(b1, b2) == entries_dict(b2)

\* update_bib(b1, b2): b1 is the store as an ID -> entry dictionary, b2 the
\* entries of the new database
update_bib(b1, b2) ==
    LET d2 == entries_dict(b2)
    IN  [id \in DOMAIN b1 \cup DOMAIN d2 |-> IF id \in DOMAIN d2 THEN d2[id] ELSE b1[id]]

\* ------------------------------------------------------------- the inputs
\* citation keys: "Smith2020", "10.1000/xyz123", "vanderWaals99", "2020ApJ...1S"
KeyPool ==
    << << "S", "m", "i", "t", "h", "2", "0", "2", "0" >>,
       << "1", "0", ".", "1", "0", "0", "0", "/", "x", "y", "z", "1", "2", "3" >>,
       << "v", "a", "n", "d", "e", "r", "W", "a", "a", "l", "s", "9", "9" >>,
       << "2", "0", "2", "0", "A", "p", "J", ".", ".", ".", "1", "S" >> >>

\* search_keys(args.files): the set of keys cited in the documents
Keys == {KeyPool[i] : i \in 1..NumKeys}

\* the ID of a store entry that no document cites
OtherID == << "J", "o", "n", "e", "s", "1", "9", "9", "9" >>

SampleArxiv == << "1", "2", "3", "4", ".", "5", "6", "7", "8" >>
SampleDoi == KeyPool[2]

\* the entry a bibliography file of the model holds under an ID: an ADS record
\* with its URL and DOI, an arXiv record without URL, a record with its URL only
StoredEntry(id) ==
    IF id \in {KeyPool[1], KeyPool[3]}
    THEN [ID |-> id, adsurl |-> AdsUrl(Ranked[1]), doi |-> SampleDoi]
    ELSE IF id \in {KeyPool[2], KeyPool[4]}
    THEN [ID |-> id, eprint |-> SampleArxiv]
    ELSE [ID |-> id, adsurl |-> AdsUrl(Ranked[2])]

\* bibtexparser.load(fp).entries_dict for the bibliography files of the model:
\* any set of the IDs; a missing file is the empty store
Stores == {[id \in ids |-> StoredEntry(id)] : ids \in SUBSET (Keys \cup {OtherID})}

\* what the operator can type at a raw_input prompt: nothing, a choice, text
\* that is neither a number nor an identifier, a number above every choice, a
\* negative number, an identifier
Inputs ==
    {<< >>, << "x" >>, << "9" >>, << "-", "1" >>, SampleArxiv}
        \cup {<< DigitChar(n) >> : n \in 0..MaxCand}

\* ------------------------------------------------------------- the state
VARIABLES
    update,        \* args.update
    keys,          \* the keys the loop of main has not reached yet
    bib,           \* bib.entries_dict, the store in memory
    file,          \* the entries of the file args.output
    loaded,        \* the store as it was loaded
    not_found,     \* main's list not_found
    to_retrieve,   \* main's dictionary to_retrieve: bibcode -> list of keys
    pc,            \* where main stands
    key,           \* the loop variable of main, None before the first turn
    entries,       \* the candidates authoryear2bibcode has shown for key
    asked,         \* 'Enter an identifier ...' has been printed for key
    queries,       \* the catalog queries issued for key, each with its answer
    looked_up,     \* the keys for which a catalog query was issued
    status,        \* the status line printed for each key, "" when none
    reported,      \* the keys printed under 'Please check the following keys'
    repeated_keys, \* the groups printed under 'The following keys refer ...'
    bib_new,       \* the entries of bib_new
    interrupted,   \* the except clause of the loop has run
    run,           \* 1 in the first run of main on the file, 2 in the second
    first,         \* what the first run left: the file, and its exchanges
    log,           \* the exchanges of this run, for each key it has reached
    sample,        \* the argument a function of the module is applied to
    answer         \* what the function has returned for sample, << >> before

\* the variables of one run of main
main_vars == << update, keys, bib, file, loaded, not_found, to_retrieve, pc, key, entries,
                asked, queries, looked_up, status, reported, repeated_keys, bib_new,
                interrupted >>

\* the variables that no step of a single run of main changes
aux == << run, first, log, sample, answer >>

vars == << main_vars, aux >>

Init ==
    /\ update \in BOOLEAN
    /\ keys = Keys
    /\ bib \in Stores
    /\ file = bib
    /\ loaded = bib
    /\ not_found = << >>
    /\ to_retrieve = << >>
    /\ pc = "loop"
    /\ key = None
    /\ entries = << >>
    /\ asked = FALSE
    /\ queries = << >>
    /\ looked_up = {}
    /\ status = [k \in Keys |-> ""]
    /\ reported = << >>
    /\ repeated_keys = {}
    /\ bib_new = {}
    /\ interrupted = FALSE
    /\ run = 1
    /\ first = << >>
    /\ log = << >>
    /\ sample = << >>
    /\ answer = << >>

\* ---------------------------------------------------------- the resolver
\* a variant of id_type_of: the types are tried in the order arxiv, doi, bibcode
id_type_of_bibcode_last(id) ==
    IF _re_id("arxiv", id) > 0 THEN "arxiv"
    ELSE IF _re_id("doi", id) > 0 THEN "doi"
    ELSE IF _re_id("bibcode", id) > 0 THEN "bibcode"
    ELSE ""

\* the first of the identifier types whose pattern matches id, "" when none does
id_type_of(id) ==
    IF _re_id("bibcode", id) > 0 THEN "bibcode"
    ELSE IF _re_id("arxiv", id) > 0 THEN "arxiv"
    ELSE IF _re_id("doi", id) > 0 THEN "doi"
    ELSE ""

\* the exchange with the catalog id2bibcode(id) has: one exact lookup of the
\* matched text under the first matching type, with its answer; none when no
\* pattern matches
id2bibcode_queries(id, result) ==
    IF id_type_of(id) = "" THEN << >>
    ELSE << [field |-> id_type_of(id),
             value |-> Take(id, _re_id(id_type_of(id), id)),
             year |-> << >>,
             result |-> result] >>

\* what id2bibcode(id) can return
id2bibcode_results(id) == IF id_type_of(id) = "" THEN {None} ELSE Results

\* authoryear2bibcode(author, year, key) up to its prompt: the ways it can go,
\* one for each answer of the catalog to its searches.  Each is the candidates
\* it shows (none when it returns None without a prompt) and the queries issued.
RECURSIVE authoryear2bibcode(_, _)
authoryear2bibcode(author, year) ==
    LET q(es) == [field |-> "author", value |-> author, year |-> year, result |-> es]
        new_author == _match_name_prefix(author)
    IN  {[entries |-> es, queries |-> << q(es) >>] : es \in SearchResults \ {<< >>}}
        \cup
        (IF (\A i \in 1..Len(author) : author[i] # " ") /\ new_author # None
         THEN {[entries |-> r.entries, queries |-> << q(<< >>) >> \o r.queries] :
                  r \in authoryear2bibcode(new_author, year)}
         ELSE {[entries |-> << >>, queries |-> << q(<< >>) >>]})

\* find_bibcode(key) from its author/year step to the first prompt
find_authoryear(k) ==
    LET m == _re_fayear(k)
    IN  IF m = << >> THEN {[entries |-> << >>, queries |-> << >>]}
        ELSE authoryear2bibcode(m[1], IF Len(m[2]) = 2 THEN _y2toy4(m[2]) ELSE m[2])

\* to_retrieve[bibcode].append(key) on the defaultdict
Appended(d, bibcode, k) ==
    [b \in DOMAIN d \cup {bibcode} |->
        IF b = bibcode THEN (IF b \in DOMAIN d THEN Append(d[b], k) ELSE << k >>) ELSE d[b]]

\* main, when find_bibcode(k) has returned a bibcode
NewEntry(k, bibcode) ==
    /\ to_retrieve' = Appended(to_retrieve, bibcode, k)
    /\ status' = [status EXCEPT ![k] = "NEW ENTRY"]
    /\ not_found' = not_found
    /\ pc' = "loop"

\* a variant of NotFound: the key is not appended to not_found
NotFound_dropped(k) ==
    /\ not_found' = not_found
    /\ status' = [status EXCEPT ![k] = "NOT FOUND"]
    /\ to_retrieve' = to_retrieve
    /\ pc' = "loop"

\* main, when find_bibcode(k) has returned None
NotFound(k) ==
    /\ not_found' = Append(not_found, k)
    /\ status' = [status EXCEPT ![k] = "NOT FOUND"]
    /\ to_retrieve' = to_retrieve
    /\ pc' = "loop"

\* find_bibcode waits at the prompt p: "choose" is the prompt of the
\* disambiguation loop, "identify" the prompt of the identifier-entry loop
Prompt(p) ==
    /\ pc' = p
    /\ UNCHANGED << to_retrieve, not_found, status >>

\* main, when find_bibcode(k) has returned: `if bibcode: ... else: ...`
Returned(k, bibcode) ==
    IF bibcode # None THEN NewEntry(k, bibcode) ELSE NotFound(k)

\* a variant of returns_at_once: find_bibcode returns what id2bibcode gives for
\* a key that matches an identifier pattern, a bibcode or None
returns_at_once_matched(k, bibcode) == bibcode # None \/ id_type_of(k) # ""

\* `bibcode = id2bibcode(key)` / `if bibcode: return bibcode` of find_bibcode
returns_at_once(k, bibcode) == bibcode # None

\* ------------------------------------------------------- the loop of main
\* a variant of check_update: the --no-update flag is ignored
check_update_ignored == TRUE

\* `if args.update:`
check_update == update

\* a variant of needs_update: the comparison with the stored bibcode is left out
needs_update_any(bibcode, bibcode_new) == bibcode_new # None

\* a variant of needs_update: `bibcode_new` is not tested, only the comparison is
needs_update_differs(bibcode, bibcode_new) == bibcode_new # bibcode

\* `if bibcode_new and bibcode_new != bibcode:`
needs_update(bibcode, bibcode_new) == bibcode_new # None /\ bibcode_new # bibcode

\* One turn of the loop for a key that is an entry-ID of the store.
ExistingKey(k) ==
    /\ pc = "loop"
    /\ k \in keys
    /\ k \in DOMAIN bib
    /\ keys' = keys \ {k}
    /\ key' = k
    /\ entries' = << >>
    /\ asked' = FALSE
    /\ IF check_update
       THEN \E ans \in [{"adsurl", "doi", "eprint"} \cap DOMAIN bib[k] -> Results] :
               LET bibcode == extract_bibcode(bib[k])
                   r       == entry2bibcode(bib[k], ans)
               IN  /\ queries' = r.queries
                   /\ looked_up' = IF r.queries # << >> THEN looked_up \cup {k} ELSE looked_up
                   /\ IF needs_update(bibcode, r.bibcode)
                      THEN /\ to_retrieve' = Appended(to_retrieve, r.bibcode, k)
                           /\ status' = [status EXCEPT ![k] = "UPDATE"]
                      ELSE /\ to_retrieve' = to_retrieve
                           /\ status' = [status EXCEPT ![k] = "EXISTING"]
       ELSE /\ queries' = << >>
            /\ looked_up' = looked_up
            /\ to_retrieve' = to_retrieve
            /\ status' = [status EXCEPT ![k] = "EXISTING"]
    /\ UNCHANGED << update, bib, file, loaded, not_found, pc, reported, repeated_keys,
                    bib_new, interrupted >>

\* find_bibcode(key) up to its return or its first prompt: the ways it can
\* go, one for each answer of the catalog.  bibcode is what id2bibcode(key)
\* gave, at_once whether find_bibcode returned it, entries the candidates shown
\* at the disambiguation prompt, queries the catalog queries issued.
find_bibcode(k) ==
    UNION {{[bibcode |-> r,
             at_once |-> returns_at_once(k, r),
             entries |-> ay.entries,
             queries |-> id2bibcode_queries(k, r) \o ay.queries] :
                ay \in (IF returns_at_once(k, r) THEN {[entries |-> << >>, queries |-> << >>]}
                        ELSE find_authoryear(k))} :
           r \in id2bibcode_results(k)}

\* One turn of the loop for a key that is not in the store: find_bibcode(k)
\* up to its return or its first prompt.
StartFind(k) ==
    /\ pc = "loop"
    /\ k \in keys
    /\ k \notin DOMAIN bib
    /\ keys' = keys \ {k}
    /\ key' = k
    /\ \E f \in find_bibcode(k) :
          /\ queries' = f.queries
          /\ looked_up' = IF f.queries # << >> THEN looked_up \cup {k} ELSE looked_up
          /\ entries' = f.entries
          /\ IF f.at_once THEN Returned(k, f.bibcode)
             ELSE IF f.entries # << >> THEN Prompt("choose")
             ELSE Prompt("identify")
    /\ asked' = (pc' = "identify")
    /\ UNCHANGED << update, bib, file, loaded, reported, repeated_keys, bib_new, interrupted >>

\* a variant of choice_of: a number outside range(0, len(entries)+1) is taken
\* as the nearest choice
choice_of_nearest(c, n) ==
    LET i == int(c)
    IN  IF i = << >> THEN << >>
        ELSE IF i[1] < 0 THEN << 0 >>
        ELSE IF i[1] > n THEN << n >>
        ELSE i

\* `while c not in choices` after int(c): the choice the input c makes among
\* n candidates, << >> when it makes none
choice_of(c, n) == LET i == int(c) IN IF i # << >> /\ i[1] \in 0..n THEN i ELSE << >>

\* a variant of selected: `if not c: return` is left out, so that choice 0
\* is entries[-1], the last candidate
selected_no_skip(es, c) == es[IF c = 0 THEN Len(es) ELSE c]

\* a variant of selected: `return entries[c].bibcode`, the candidate after the
\* one chosen (the first after the last, as a list index out of range is not
\* modelled)
selected_zero_based(es, c) == IF c = 0 THEN None ELSE es[(c % Len(es)) + 1]

\* `if not c: return` / `return entries[c-1].bibcode`
selected(es, c) == IF c = 0 THEN None ELSE es[c]

\* One pass of the disambiguation loop of authoryear2bibcode on the input c.
Choice(c) ==
    /\ pc = "choose"
    /\ Len(queries) + Len(id2bibcode_queries(c, None)) <= MaxQueries
    /\ \E r \in id2bibcode_results(c) :
          LET ch == choice_of(c, Len(entries))
          IN  /\ queries' = queries \o id2bibcode_queries(c, r)
              /\ IF r # None THEN Returned(key, r)
                 ELSE IF ch = << >> THEN Prompt("choose")
                 ELSE IF selected(entries, ch[1]) # None
                      THEN Returned(key, selected(entries, ch[1]))
                      ELSE Prompt("identify")
    /\ asked' = (pc' = "identify")
    /\ looked_up' = IF id_type_of(c) # "" THEN looked_up \cup {key} ELSE looked_up
    /\ UNCHANGED << update, keys, key, entries, bib, file, loaded, reported, repeated_keys,
                    bib_new, interrupted >>

\* a variant of keeps_asking: the prompt is issued once only
keeps_asking_once(c) == FALSE

\* `while c:`
keeps_asking(c) == c # << >>

\* One pass of the identifier-entry loop of find_bibcode on the input c.
Identifier(c) ==
    /\ pc = "identify"
    /\ Len(queries) + Len(id2bibcode_queries(c, None)) <= MaxQueries
    /\ \E r \in id2bibcode_results(c) :
          /\ queries' = queries \o id2bibcode_queries(c, r)
          /\ IF r # None THEN Returned(key, r)
             ELSE IF keeps_asking(c) THEN Prompt("identify")
             ELSE Returned(key, None)
    /\ looked_up' = IF id_type_of(c) # "" THEN looked_up \cup {key} ELSE looked_up
    /\ UNCHANGED << update, keys, key, entries, asked, bib, file, loaded, reported,
                    repeated_keys, bib_new, interrupted >>

\* a variant of Interrupt: the except clause ends the run
Interrupt_exits ==
    /\ \/ pc = "loop" /\ keys # {}
       \/ pc \in {"choose", "identify"}
    /\ pc' = "done"
    /\ interrupted' = TRUE
    /\ UNCHANGED << update, keys, bib, file, loaded, not_found, to_retrieve, key, entries,
                    asked, queries, looked_up, status, reported, repeated_keys, bib_new >>

\* KeyboardInterrupt inside the try block: the except clause ends the loop.
Interrupt ==
    /\ \/ pc = "loop" /\ keys # {}
       \/ pc \in {"choose", "identify"}
    /\ pc' = "report"
    /\ interrupted' = TRUE
    /\ UNCHANGED << update, keys, bib, file, loaded, not_found, to_retrieve, key, entries,
                    asked, queries, looked_up, status, reported, repeated_keys, bib_new >>

\* The loop has reached the end of the key set.
EndLoop ==
    /\ pc = "loop"
    /\ keys = {}
    /\ pc' = "report"
    /\ UNCHANGED << update, keys, bib, file, loaded, not_found, to_retrieve, key, entries,
                    asked, queries, looked_up, status, reported, repeated_keys, bib_new, interrupted >>

\* ------------------------------------------------------ report and merge
\* `if not_found:` the summary of the keys not found
Report ==
    /\ pc = "report"
    /\ reported' = not_found
    /\ pc' = "retrieve"
    /\ UNCHANGED << update, keys, bib, file, loaded, not_found, to_retrieve, key, entries,
                    asked, queries, looked_up, status, repeated_keys, bib_new, interrupted >>

\* `if to_retrieve:` the alias summary and the batch fetch; 'Done!' when
\* nothing is queued
Retrieve ==
    /\ pc = "retrieve"
    /\ IF DOMAIN to_retrieve = {}
       THEN /\ pc' = "done"
            /\ UNCHANGED << repeated_keys, bib_new >>
       ELSE /\ repeated_keys' =
                 {<< b, to_retrieve[b] >> : b \in {x \in DOMAIN to_retrieve : Len(to_retrieve[x]) > 1}}
            /\ bib_new' = Export(DOMAIN to_retrieve)
            /\ pc' = "rewrite"
    /\ UNCHANGED << update, keys, bib, file, loaded, not_found, to_retrieve, key, entries,
                    asked, queries, looked_up, status, reported, interrupted >>

\* The export request fails: the exception ends the run.
RetrieveFails ==
    /\ pc = "retrieve"
    /\ DOMAIN to_retrieve # {}
    /\ pc' = "aborted"
    /\ UNCHANGED << update, keys, bib, file, loaded, not_found, to_retrieve, key, entries,
                    asked, queries, looked_up, status, reported, repeated_keys, bib_new, interrupted >>

\* a variant of retained: `[-1]`, the last key queued
retained_last(ks) == ks[Len(ks)]

\* `to_retrieve[entry['ID']][0]`
retained(ks) == ks[1]

\* `for entry in bib_new.entries: entry['ID'] = to_retrieve[entry['ID']][0]`
RewriteIDs ==
    /\ pc = "rewrite"
    /\ bib_new' = {[e EXCEPT !.ID = retained(to_retrieve[e.ID])] : e \in bib_new}
    /\ pc' = "merge"
    /\ UNCHANGED << update, keys, bib, file, loaded, not_found, to_retrieve, key, entries,
                    asked, queries, looked_up, status, reported, repeated_keys, interrupted >>

\* a variant of Merge: the merged store is written to the file at once
Merge_and_write ==
    /\ pc = "merge"
    /\ bib' = update_bib(bib, bib_new)
    /\ file' = bib'
    /\ pc' = "write"
    /\ UNCHANGED << update, keys, loaded, not_found, to_retrieve, key, entries,
                    asked, queries, looked_up, status, reported, repeated_keys, bib_new, interrupted >>

\* `bib = update_bib(bib, bib_new)`
Merge ==
    /\ pc = "merge"
    /\ bib' = update_bib(bib, bib_new)
    /\ pc' = "write"
    /\ UNCHANGED << update, keys, file, loaded, not_found, to_retrieve, key, entries,
                    asked, queries, looked_up, status, reported, repeated_keys, bib_new, interrupted >>

\* `with open(args.output, 'w') as fp: bibtexparser.dump(bib, fp)` and 'Done!'
Write ==
    /\ pc = "write"
    /\ file' = bib
    /\ pc' = "done"
    /\ UNCHANGED << update, keys, bib, loaded, not_found, to_retrieve, key, entries,
                    asked, queries, looked_up, status, reported, repeated_keys, bib_new, interrupted >>

\* KeyboardInterrupt after the try block: nothing catches it, the run ends.
Kill ==
    /\ pc \in {"report", "retrieve", "rewrite", "merge", "write"}
    /\ pc' = "aborted"
    /\ UNCHANGED << update, keys, bib, file, loaded, not_found, to_retrieve, key, entries,
                    asked, queries, looked_up, status, reported, repeated_keys, bib_new, interrupted >>

Next ==
    \/ \E k \in Keys : ExistingKey(k) /\ UNCHANGED aux
    \/ \E k \in Keys : StartFind(k) /\ UNCHANGED aux
    \/ \E c \in Inputs : Choice(c) /\ UNCHANGED aux
    \/ \E c \in Inputs : Identifier(c) /\ UNCHANGED aux
    \/ Interrupt /\ UNCHANGED aux
    \/ EndLoop /\ UNCHANGED aux
    \/ Report /\ UNCHANGED aux
    \/ Retrieve /\ UNCHANGED aux
    \/ RetrieveFails /\ UNCHANGED aux
    \/ RewriteIDs /\ UNCHANGED aux
    \/ Merge /\ UNCHANGED aux
    \/ Write /\ UNCHANGED aux
    \/ Kill /\ UNCHANGED aux

Spec == Init /\ [][Next]_vars

\* ============================================================ properties
Range(s) == {s[i] : i \in 1..Len(s)}
Last(s) == s[Len(s)]

\* k is in the list of some bibcode of to_retrieve
Queued(k) == \E b \in DOMAIN to_retrieve : k \in Range(to_retrieve[b])

\* the record the export returns for bibcode b, under the entry-ID k
Fetched(b, k) == [ID |-> k, adsurl |-> AdsUrl(b)]

\* the entry of store s under id, << >> when it has none
EntryOf(s, id) == IF id \in DOMAIN s THEN s[id] ELSE << >>

\* the entry-IDs this pass produces: the first key queued under each bibcode
Produced == {to_retrieve[b][1] : b \in DOMAIN to_retrieve}

\* the bibcode returned by the lookups logged for key, None when none returned one
Fresh == IF queries = << >> THEN None ELSE Last(queries).result

\* the first identifier pattern, in the order bibcode, arxiv, doi, that matches s
FirstMatch(s) ==
    IF _re_bibcode(s) > 0 THEN [type |-> "bibcode", text |-> Take(s, _re_bibcode(s))]
    ELSE IF _re_arxiv(s) > 0 THEN [type |-> "arxiv", text |-> Take(s, _re_arxiv(s))]
    ELSE IF _re_doi(s) > 0 THEN [type |-> "doi", text |-> Take(s, _re_doi(s))]
    ELSE [type |-> "", text |-> << >>]

\* ------------------------------------------------------------------- C1
\* C1: an interrupt in the resolution loop (at a prompt or between keys) ends
\* the loop and loses nothing: every key printed as NEW ENTRY or UPDATE is
\* still queued, every key printed NOT FOUND is still in not_found, the keys
\* not reached stay without status; and when the run then completes, the
\* not-found keys have been reported, the record of every queued bibcode is
\* in the store and the file under the first key queued for it, and the keys
\* not reached have their store entries as loaded.
C1_InterruptKeepsResults ==
    interrupted =>
        /\ pc \in {"report", "retrieve", "rewrite", "merge", "write", "done", "aborted"}
        /\ \A k \in Keys :
              /\ status[k] \in {"NEW ENTRY", "UPDATE"} => Queued(k)
              /\ status[k] = "NOT FOUND" => k \in Range(not_found)
        /\ \A k \in keys : status[k] = "" /\ ~Queued(k) /\ k \notin Range(not_found)
        /\ pc = "done" =>
              /\ reported = not_found
              /\ \A b \in DOMAIN to_retrieve :
                    /\ EntryOf(bib, to_retrieve[b][1]) = Fetched(b, to_retrieve[b][1])
                    /\ EntryOf(file, to_retrieve[b][1]) = Fetched(b, to_retrieve[b][1])
              /\ \A k \in keys : EntryOf(file, k) = EntryOf(loaded, k)

\* an interrupted run has completed: a key was abandoned at its prompt, an
\* earlier key's record was merged and written
C1_Witness ==
    /\ interrupted
    /\ pc = "done"
    /\ key # None /\ status[key] = "" /\ entries # << >>
    /\ DOMAIN to_retrieve # {}
    /\ file # loaded

\* ------------------------------------------------------------------- C2
\* C2: when a completed run has queued two or more keys under one bibcode,
\* the file holds the fetched record under the first of these keys, the other
\* keys' entries are as they were loaded (none is written for them), that
\* first key is the only ID whose entry was written for the bibcode, and the
\* group was reported.
C2_AliasesKeepFirstKey ==
    pc = "done" =>
        \A b \in DOMAIN to_retrieve :
            Len(to_retrieve[b]) > 1 =>
                /\ EntryOf(file, to_retrieve[b][1]) = Fetched(b, to_retrieve[b][1])
                /\ \A i \in 2..Len(to_retrieve[b]) :
                      EntryOf(file, to_retrieve[b][i]) = EntryOf(loaded, to_retrieve[b][i])
                /\ {id \in DOMAIN file :
                        /\ extract_bibcode(file[id]) = b
                        /\ file[id] # EntryOf(loaded, id)} = {to_retrieve[b][1]}
                /\ << b, to_retrieve[b] >> \in repeated_keys

\* a completed run in which two keys were queued under one bibcode
C2_Witness ==
    /\ pc = "done"
    /\ \E b \in DOMAIN to_retrieve : Len(to_retrieve[b]) > 1

\* ------------------------------------------------------------------- C3
\* C3 as amended: for a key of the store, with update-checking enabled, a
\* fresh lookup that returns the bibcode of the stored URL gives the status
\* EXISTING (the status also given when update-checking is disabled) and the
\* key is not queued; a lookup that returns another bibcode gives the status
\* UPDATE and the key is queued under that bibcode and no other.
C3_UpdateCheck ==
    (key # None /\ key \in DOMAIN loaded /\ status[key] # "") =>
        IF update
        THEN /\ (Fresh # None /\ Fresh = extract_bibcode(loaded[key])) =>
                   status[key] = "EXISTING" /\ ~Queued(key)
             /\ (Fresh # None /\ Fresh # extract_bibcode(loaded[key])) =>
                   /\ status[key] = "UPDATE"
                   /\ \A b \in Bibcodes :
                         (b \in DOMAIN to_retrieve /\ key \in Range(to_retrieve[b])) <=> b = Fresh
        ELSE status[key] = "EXISTING"

\* the update check of a stored key has found the bibcode of its stored URL
C3_Witness ==
    /\ update
    /\ key # None /\ key \in DOMAIN loaded
    /\ Fresh # None /\ Fresh = extract_bibcode(loaded[key])
    /\ status[key] = "EXISTING"

\* C3 as stated: a fresh lookup that returns the stored bibcode gives the
\* status `EXISTING unchanged`, distinct from the plain `EXISTING`.
C3_Original ==
    (update /\ key # None /\ key \in DOMAIN loaded /\ status[key] # "") =>
        /\ (Fresh # None /\ Fresh = extract_bibcode(loaded[key])) =>
               status[key] = "EXISTING unchanged" /\ ~Queued(key)
        /\ (Fresh # None /\ Fresh # extract_bibcode(loaded[key])) =>
               status[key] = "UPDATE" /\ Fresh \in DOMAIN to_retrieve
                   /\ key \in Range(to_retrieve[Fresh])

\* ------------------------------------------------------------------- C4
\* C4: after the merge every entry-ID produced by the pass (the first key of
\* each queued bibcode) maps to the record fetched for that bibcode, every
\* other ID has the entry it had when the store was loaded, or none if it had
\* none, and the file written is that store.
C4_MergeFrame ==
    pc \in {"write", "done"} =>
        /\ \A b \in DOMAIN to_retrieve :
              EntryOf(bib, to_retrieve[b][1]) = Fetched(b, to_retrieve[b][1])
        /\ \A id \in (DOMAIN bib \cup DOMAIN loaded) \ Produced :
              EntryOf(bib, id) = EntryOf(loaded, id)
        /\ pc = "done" => file = bib

\* a merge has overwritten a loaded entry and left another one alone
C4_Witness ==
    /\ pc = "done"
    /\ \E id \in Produced \cap DOMAIN loaded : file[id] # loaded[id]
    /\ \E id \in DOMAIN loaded \ Produced : file[id] = loaded[id]

\* ------------------------------------------------------------------- C5
\* C5: at the disambiguation prompt, whatever the number of candidates shown,
\* an input that int() reads as 0 selects no candidate: the key is neither
\* queued nor recorded as not found, no status is printed, and find_bibcode
\* goes on to print 'Enter an identifier' and to wait at the identifier prompt.
C5_ChoiceZeroAsksIdentifier ==
    [][\A c \in Inputs :
          (int(c) = << 0 >> /\ Choice(c)) =>
              /\ pc' = "identify"
              /\ asked'
              /\ UNCHANGED << key, status, to_retrieve, not_found >>]_vars

\* the identifier prompt is waiting for a key whose candidates, as many as a
\* search returns at most, were shown and declined
C5_Witness ==
    /\ pc = "identify"
    /\ asked
    /\ Len(entries) = MaxCand
    /\ status[key] = ""

\* ------------------------------------------------------------------- C6
\* C6: a pass of the identifier-entry loop does one of three things: the
\* input matches an identifier pattern and its lookup returns a bibcode, and
\* the loop returns it (the key is queued under it); the input is empty, and
\* the loop returns None (the key is recorded as not found); the input is not
\* empty and resolves to nothing, and the prompt is issued again with nothing
\* changed.  The prompt is left in no other way, short of an interrupt.
C6_IdentifierLoop ==
    [][/\ \A c \in Inputs :
             Identifier(c) =>
                 \/ /\ id_type_of(c) # ""
                    /\ Fresh' # None
                    /\ pc' = "loop"
                    /\ status'[key] = "NEW ENTRY"
                    /\ Fresh' \in DOMAIN to_retrieve'
                    /\ Last(to_retrieve'[Fresh']) = key
                    /\ not_found' = not_found
                 \/ /\ c = << >>
                    /\ pc' = "loop"
                    /\ status'[key] = "NOT FOUND"
                    /\ not_found' = Append(not_found, key)
                    /\ to_retrieve' = to_retrieve
                 \/ /\ c # << >>
                    /\ id_type_of(c) # "" => Fresh' = None
                    /\ pc' = "identify"
                    /\ UNCHANGED << key, status, to_retrieve, not_found >>
       /\ (pc = "identify" /\ pc' # "identify") =>
             \/ \E c \in Inputs : Identifier(c)
             \/ interrupted' /\ pc' = "report"]_vars

\* the identifier prompt is waiting again after an identifier typed at it
\* (the key itself is no arXiv id and had no candidates) was looked up in vain
C6_Witness ==
    /\ pc = "identify"
    /\ entries = << >>
    /\ id_type_of(key) # "arxiv"
    /\ queries # << >>
    /\ Last(queries).field = "arxiv"
    /\ Fresh = None

\* ------------------------------------------------------------------- C7
\* C7 as amended: for a key outside the store that matches an identifier
\* pattern, find_bibcode first issues one exact lookup of the matched text
\* under the first matching type (bibcode, arxiv, doi) and no author search.
\* If the lookup returns a record, no other query is issued and the key is
\* queued under that record's bibcode.  If it returns none, find_bibcode does
\* not return None at once: it goes to the identifier-entry loop, and the key
\* is recorded as not found only after that prompt was issued.
C7_IdentifierKey ==
    (key # None /\ key \notin DOMAIN loaded /\ FirstMatch(key).type # "") =>
        /\ queries # << >>
        /\ queries[1].field = FirstMatch(key).type
        /\ queries[1].value = FirstMatch(key).text
        /\ \A i \in 2..Len(queries) : queries[i].field # "author" /\ queries[1].result = None
        /\ entries = << >>
        /\ pc # "choose"
        /\ queries[1].result # None =>
              /\ status[key] = "NEW ENTRY"
              /\ queries[1].result \in DOMAIN to_retrieve
              /\ key \in Range(to_retrieve[queries[1].result])
              /\ ~asked
        /\ queries[1].result = None =>
              /\ asked
              /\ status[key] = "" => pc = "identify" \/ interrupted

\* a key that is a DOI was looked up in vain and then resolved at the
\* identifier prompt
C7_Witness ==
    /\ key # None /\ key \notin DOMAIN loaded /\ FirstMatch(key).type = "doi"
    /\ queries[1].result = None
    /\ asked
    /\ status[key] = "NEW ENTRY"

\* C7 as stated: for a key that matches an identifier pattern the result of
\* resolveKey is that of the single lookup: the first record's bibcode, or
\* Unresolved when the query has no result.
C7_Original ==
    (key # None /\ key \notin DOMAIN loaded /\ FirstMatch(key).type # "") =>
        /\ Len(queries) = 1
        /\ queries[1].field = FirstMatch(key).type
        /\ queries[1].result # None =>
              status[key] = "NEW ENTRY" /\ key \in Range(EntryOf(to_retrieve, queries[1].result))
        /\ queries[1].result = None =>
              status[key] = "NOT FOUND" /\ key \in Range(not_found)

\* ------------------------------------------------------------------- C8
\* C8: with update-checking disabled, a cited key that is an entry-ID of the
\* loaded store gets the status EXISTING when the loop reaches it, and at
\* every point of the run no catalog query has been issued for it, it is not
\* queued, it is not in not_found, and its entry in the store and in the
\* file is the loaded one.
C8_NoUpdateSkipsExisting ==
    ~update =>
        \A k \in Keys \cap DOMAIN loaded :
            /\ status[k] = (IF k \in keys THEN "" ELSE "EXISTING")
            /\ k \notin looked_up
            /\ key = k => queries = << >>
            /\ ~Queued(k)
            /\ k \notin Range(not_found)
            /\ EntryOf(bib, k) = loaded[k]
            /\ EntryOf(file, k) = loaded[k]

\* a run without update-checking has skipped a stored key and written the
\* record of another key
C8_Witness ==
    /\ ~update
    /\ pc = "done"
    /\ file # loaded
    /\ \E k \in Keys \cap DOMAIN loaded : status[k] = "EXISTING"

\* ------------------------------------------------------------------- C9
\* C9: not_found holds exactly the keys printed NOT FOUND; such a key is
\* queued under no bibcode, has no entry in the loaded store, in the store or
\* in the file at any point of the run, and is in the reported list once the
\* report is printed.
C9_UnresolvedNotFound ==
    \A k \in Keys :
        /\ status[k] = "NOT FOUND" <=> k \in Range(not_found)
        /\ status[k] = "NOT FOUND" =>
              /\ ~Queued(k)
              /\ k \notin DOMAIN loaded
              /\ k \notin DOMAIN bib
              /\ k \notin DOMAIN file
              /\ pc \in {"retrieve", "rewrite", "merge", "write", "done"} => k \in Range(reported)

\* a completed run has reported a key as not found and written the record
\* of another key
C9_Witness ==
    /\ pc = "done"
    /\ file # loaded
    /\ \E k \in Keys : status[k] = "NOT FOUND" /\ k \in Range(reported)

\* ------------------------------------------------------------------ C10
\* C10 as amended: up to the merge step the store in memory and the file are
\* as loaded; the store in memory changes only once the records of all queued
\* bibcodes are fetched; the file changes only in the final write, which
\* writes the merged store and ends the run.  A run that ends before the
\* final write (an interrupt, a failed fetch) leaves the file as loaded; the
\* store in memory is as loaded if it ends before the merge step, and may
\* hold the merged entries if it ends between the merge and the write.
C10_FetchBeforeMerge ==
    /\ pc \in {"loop", "choose", "identify", "report", "retrieve", "rewrite", "merge"} =>
          bib = loaded /\ file = loaded
    /\ pc \in {"write", "aborted"} => file = loaded
    /\ bib # loaded =>
          /\ DOMAIN to_retrieve # {}
          /\ bib_new = {Fetched(b, to_retrieve[b][1]) : b \in DOMAIN to_retrieve}
    /\ file # loaded => pc = "done" /\ file = bib

\* a run was interrupted between the merge and the write
C10_Witness ==
    /\ pc = "aborted"
    /\ bib # loaded
    /\ file = loaded

\* C10 as stated: the fetch precedes every mutation of the store in memory,
\* the file is written at most once, after the merge, and a run that ends
\* before the final write leaves the store in memory and the file as loaded.
C10_Original ==
    /\ bib # loaded => bib_new = {Fetched(b, to_retrieve[b][1]) : b \in DOMAIN to_retrieve}
    /\ file # loaded => pc = "done" /\ file = bib
    /\ pc = "aborted" => bib = loaded /\ file = loaded

\* ================================================================== C11
\* Two runs of main on the same file and the same key set.  The exchanges of a
\* run are logged key by key, in the order the loop of main takes the keys
\* (lines 206-223): the catalog queries with their answers and the inputs the
\* operator types at the prompts (lines 113 and 147).

\* a key is taken by the loop: its exchange up to the first prompt
LogKey == log' = Append(log, [key |-> key', queries |-> queries', typed |-> << >>])

\* the operator types c at a prompt for the key the loop is at
LogInput(c) ==
    /\ log # << >>
    /\ Len(log[Len(log)].typed) < MaxTyped
    /\ log' = [log EXCEPT ![Len(log)] =
                  [key |-> key, queries |-> queries', typed |-> Append(log[Len(log)].typed, c)]]

\* the catalog queries of a log, each with its answer
QueriesOf(l) ==
    UNION {{l[i].queries[j] : j \in 1..Len(l[i].queries)} : i \in 1..Len(l)}

\* the bibcodes the catalog has returned in the queries of a log
Returned_bibcodes(l) ==
    UNION {IF q.field = "author" THEN Range(q.result)
           ELSE IF q.result # None THEN {q.result} ELSE {} : q \in QueriesOf(l)}

\* In the second run the loop takes the keys in the order of the first (the
\* same set is iterated), the operator types for a key what was typed for it in
\* the first run, and the catalog answers as in the first run: a query of the
\* first run gets the answer it got, and the lookup of a bibcode the catalog
\* has returned gives that bibcode.
SameAnswers ==
    run = 2 =>
        /\ \A i \in 1..Len(log) :
              i <= Len(first.log) =>
                  /\ log[i].key = first.log[i].key
                  /\ Len(log[i].typed) <= Len(first.log[i].typed)
                  /\ log[i].typed = Take(first.log[i].typed, Len(log[i].typed))
        /\ \A q \in QueriesOf(log) :
              /\ \A p \in QueriesOf(first.log) \cup QueriesOf(log) :
                    (p.field = q.field /\ p.value = q.value /\ p.year = q.year) =>
                        p.result = q.result
              /\ (q.field = "bibcode"
                    /\ q.value \in Returned_bibcodes(first.log) \cup Returned_bibcodes(log)) =>
                        q.result = q.value

\* `main()` is run again on the file the first, uninterrupted run has left:
\* lines 195-204 with the same arguments and the same documents
Rerun ==
    /\ pc = "done"
    /\ run = 1
    /\ ~interrupted
    /\ run' = 2
    /\ first' = [file |-> file, log |-> log]
    /\ log' = << >>
    /\ keys' = Keys
    /\ bib' = file
    /\ loaded' = file
    /\ not_found' = << >>
    /\ to_retrieve' = << >>
    /\ pc' = "loop"
    /\ key' = None
    /\ entries' = << >>
    /\ asked' = FALSE
    /\ queries' = << >>
    /\ looked_up' = {}
    /\ status' = [k \in Keys |-> ""]
    /\ reported' = << >>
    /\ repeated_keys' = {}
    /\ bib_new' = {}
    /\ interrupted' = FALSE
    /\ UNCHANGED << update, file, sample, answer >>

NextTwice ==
    \/ \E k \in Keys : ExistingKey(k) /\ LogKey /\ UNCHANGED << run, first, sample, answer >> /\ SameAnswers'
    \/ \E k \in Keys : StartFind(k) /\ LogKey /\ UNCHANGED << run, first, sample, answer >> /\ SameAnswers'
    \/ \E c \in Inputs : Choice(c) /\ LogInput(c) /\ UNCHANGED << run, first, sample, answer >> /\ SameAnswers'
    \/ \E c \in Inputs : Identifier(c) /\ LogInput(c) /\ UNCHANGED << run, first, sample, answer >> /\ SameAnswers'
    \/ Interrupt /\ UNCHANGED aux
    \/ EndLoop /\ UNCHANGED aux
    \/ Report /\ UNCHANGED aux
    \/ Retrieve /\ UNCHANGED aux
    \/ RetrieveFails /\ UNCHANGED aux
    \/ RewriteIDs /\ UNCHANGED aux
    \/ Merge /\ UNCHANGED aux
    \/ Write /\ UNCHANGED aux
    \/ Kill /\ UNCHANGED aux
    \/ Rerun

SpecTwice == Init /\ [][NextTwice]_vars

\* C11: a second, uninterrupted run over the same key set on the file the
\* first run has written, with the catalog and the operator answering as in
\* the first run, leaves the file equal to the file after the first run.
C11_Idempotent ==
    (run = 2 /\ pc = "done" /\ ~interrupted) => file = first.file

\* ============================================== the functions on their own
\* find_bibcode and _y2toy4 applied to an argument: sample is the call, answer
\* is << >> before the call and << the value returned >> after it.

\* first and last year in which the process is started
MinYear == 1995
MaxYear == 2105

\* citation keys of each shape: author and year, identifiers, neither
SampleKeys ==
    { << "S", "m", "i", "t", "h", "2", "0", "2", "0" >>,
      << "1", "0", ".", "1", "0", "0", "0", "/", "x", "y", "z", "1", "2", "3" >>,
      << "2", "0", "2", "0", "A", "p", "J", ".", ".", ".", "1", "S" >>,
      << "2", "0", "2", "0", "A", "p", "J", ".", ".", ".", "9", "0", "0", ".", ".", "1", "0", "0", "S" >>,
      << "v", "a", "n", "d", "e", "r", "W", "a", "a", "l", "s", "9", "9" >>,
      << "1", "2", "3", "4", ".", "5", "6", "7", "8" >>,
      << "a", "s", "t", "r", "o", "-", "p", "h", "/", "0", "6", "0", "1", "0", "0", "1" >>,
      << "v", "o", "n", "d", "e", "r", "L", "i", "n", "d", "e", "n", "2", "0", "0", "1" >>,
      << "d", "e", "J", "o", "n", "g", "1", "5" >>,
      << "V", "a", "n", "d", "e", "r", "b", "i", "l", "t", ":", "0", "7" >>,
      << "v", "a", "n", "2", "0", "2", "0" >>,
      << "d", "e", "n", "H", "a", "r", "t", "o", "g", "1", "9", "8", "7" >>,
      << "x" >> }

\* strings of the form \d{4}\D\S{13}[A-Z.:], some of which also begin like an
\* arXiv identifier (\d{4}\.\d{4,5})
BibcodeYears == { << "2", "0", "2", "0" >>, << "1", "2", "3", "4" >> }
BibcodeMiddles ==
    { << "A", "p", "J", ".", ".", ".", "9", "0", "0", ".", ".", "1", "0", "0" >>,
      << "A", "&", "A", ".", ".", ".", "1", "2", "3", "A", ".", ".", "4", "5" >>,
      << ".", "5", "6", "7", "8", ".", ".", ".", ".", ".", ".", ".", ".", "." >>,
      << ".", "1", "2", "3", "4", "5", ".", ".", ".", ".", ".", ".", ".", "." >>,
      << "a", "r", "X", "i", "v", "1", "2", "3", "4", "5", "6", "7", "8", "9" >> }
BibcodeEnds == { "S", ".", ":" }
BibcodeLike == {y \o m \o << e >> : y \in BibcodeYears, m \in BibcodeMiddles, e \in BibcodeEnds}

\* strings one character away from that form: a last character that is not
\* in [A-Z.:], one character more, one character less
NearBibcodes ==
    {y \o m \o << e >> : y \in BibcodeYears, m \in BibcodeMiddles, e \in {"s", "7"}}
    \cup {b \o << "X" >> : b \in BibcodeLike}
    \cup {Take(b, 18) : b \in BibcodeLike}

\* two-digit years as _re_fayear captures them: "00" .. "99"
TwoDigits == {<< DigitChar(n \div 10), DigitChar(n % 10) >> : n \in 0..99}

Samples ==
    {[fn |-> "find_bibcode", arg |-> k, today |-> today_year] :
        k \in SampleKeys \cup BibcodeLike \cup NearBibcodes}
    \cup {[fn |-> "_y2toy4", arg |-> y2, today |-> y] : y2 \in TwoDigits, y \in MinYear..MaxYear}

InitFunctions ==
    /\ update = TRUE
    /\ keys = {}
    /\ bib = << >>
    /\ file = << >>
    /\ loaded = << >>
    /\ not_found = << >>
    /\ to_retrieve = << >>
    /\ pc = "loop"
    /\ key = None
    /\ entries = << >>
    /\ asked = FALSE
    /\ queries = << >>
    /\ looked_up = {}
    /\ status = [k \in Keys |-> ""]
    /\ reported = << >>
    /\ repeated_keys = {}
    /\ bib_new = {}
    /\ interrupted = FALSE
    /\ run = 1
    /\ first = << >>
    /\ log = << >>
    /\ sample \in Samples
    /\ answer = << >>

\* find_bibcode(sample.arg) runs up to its return or its first prompt
CallFindBibcode ==
    /\ sample.fn = "find_bibcode"
    /\ answer = << >>
    /\ \E f \in find_bibcode(sample.arg) : answer' = << f >>
    /\ UNCHANGED << main_vars, run, first, log, sample >>

\* _y2toy4(sample.arg) in a process started in the year sample.today
CallY2toY4 ==
    /\ sample.fn = "_y2toy4"
    /\ answer = << >>
    /\ answer' = << y2toy4(sample.today, sample.arg) >>
    /\ UNCHANGED << main_vars, run, first, log, sample >>

NextFunctions ==
    \/ CallFindBibcode
    \/ CallY2toY4

SpecFunctions == InitFunctions /\ [][NextFunctions]_vars

\* the value find_bibcode has returned for the key k
Found(k) == sample.fn = "find_bibcode" /\ sample.arg = k /\ answer # << >>

\* ------------------------------------------------------------------ C12
\* C12 as amended: find_bibcode takes "Smith2020" as first author "Smith" and
\* year "2020" (its first query is that author/year search), "10.1000/xyz123"
\* as a DOI (its first query is the lookup of that DOI), and "2020ApJ...1S" as
\* nothing: no pattern matches its 12 characters and no query is issued.  The
\* 19-character bibcode "2020ApJ...900..100S" is looked up as a bibcode.
C12_Recognizer ==
    /\ Found(KeyPool[1]) =>
          /\ _re_fayear(KeyPool[1]) = << << "S", "m", "i", "t", "h" >>, << "2", "0", "2", "0" >> >>
          /\ answer[1].queries[1].field = "author"
          /\ answer[1].queries[1].value = << "S", "m", "i", "t", "h" >>
          /\ answer[1].queries[1].year = << "2", "0", "2", "0" >>
    /\ Found(KeyPool[2]) =>
          /\ answer[1].queries[1].field = "doi"
          /\ answer[1].queries[1].value = KeyPool[2]
    /\ Found(KeyPool[4]) =>
          /\ answer[1].queries = << >>
          /\ ~answer[1].at_once
          /\ answer[1].entries = << >>
    /\ Found(<< "2", "0", "2", "0", "A", "p", "J", ".", ".", ".", "9", "0", "0", ".", ".", "1", "0", "0", "S" >>) =>
          /\ answer[1].queries[1].field = "bibcode"
          /\ answer[1].queries[1].value = sample.arg

\* find_bibcode has gone through "2020ApJ...1S" without a query
C12_Witness ==
    /\ Found(KeyPool[4])
    /\ answer[1].queries = << >>

\* C12 as stated: "Smith2020" is AuthorYear("Smith", "2020"), "10.1000/xyz123"
\* a Doi and "2020ApJ...1S" a Bibcode.
C12_Original ==
    /\ Found(KeyPool[1]) =>
          /\ answer[1].queries[1].field = "author"
          /\ answer[1].queries[1].value = << "S", "m", "i", "t", "h" >>
          /\ answer[1].queries[1].year = << "2", "0", "2", "0" >>
    /\ Found(KeyPool[2]) =>
          answer[1].queries # << >> /\ answer[1].queries[1].field = "doi"
    /\ Found(KeyPool[4]) =>
          answer[1].queries # << >> /\ answer[1].queries[1].field = "bibcode"

\* ------------------------------------------------------------------ C13
\* C13: for every string of the bibcode form, find_bibcode issues one query,
\* the lookup of the whole string as a bibcode, whatever the lookup returns:
\* no arXiv lookup, no DOI lookup and no author/year search, also when the
\* string begins like an arXiv identifier.  The strings one character away
\* from the form are not looked up as bibcodes.
C13_BibcodeFirst ==
    (sample.fn = "find_bibcode" /\ answer # << >>) =>
        /\ sample.arg \in BibcodeLike =>
              /\ answer[1].queries =
                    << [field |-> "bibcode", value |-> sample.arg, year |-> << >>,
                        result |-> answer[1].bibcode] >>
              /\ answer[1].entries = << >>
        /\ sample.arg \in NearBibcodes =>
              \A i \in 1..Len(answer[1].queries) : answer[1].queries[i].field # "bibcode"

\* a string that is of the bibcode form and begins like an arXiv identifier
\* was looked up as a bibcode, in vain
C13_Witness ==
    /\ sample.fn = "find_bibcode"
    /\ sample.arg \in BibcodeLike
    /\ _re_id("arxiv", sample.arg) > 0
    /\ answer # << >>
    /\ answer[1].queries[1].field = "bibcode"
    /\ answer[1].bibcode = None

\* ------------------------------------------------------------------ C14
\* C14: for every two-digit year y2 and every year in which the process is
\* started, _y2toy4(y2) is the four-digit numeral of the one year in the last
\* hundred years up to the current one that ends in y2: in the previous
\* century when y2 is greater than the current year's last two digits, in
\* the current century otherwise.  In 2025, "99" gives "1999" and "10" "2010".
C14_CenturyRule ==
    (sample.fn = "_y2toy4" /\ answer # << >>) =>
        LET y  == DigitsValue(sample.arg)
            Y  == sample.today
            y4 == answer[1]
            v  == DigitsValue(y4)
        IN  /\ Len(y4) = 4
            /\ Span(y4, Digit) = 4
            /\ v % 100 = y
            /\ Y - 100 < v /\ v <= Y
            /\ \A w \in (Y - 99)..Y : w % 100 = y => w = v
            /\ y > Y % 100 => v \div 100 = (Y \div 100) - 1
            /\ y <= Y % 100 => v \div 100 = Y \div 100
            /\ (Y = 2025 /\ sample.arg = << "9", "9" >>) => y4 = << "1", "9", "9", "9" >>
            /\ (Y = 2025 /\ sample.arg = << "1", "0" >>) => y4 = << "2", "0", "1", "0" >>

\* _y2toy4("99") has returned "1999" in a process started in 2025
C14_Witness ==
    /\ sample.fn = "_y2toy4"
    /\ sample.today = 2025
    /\ sample.arg = << "9", "9" >>
    /\ answer = << << "1", "9", "9", "9" >> >>

\* ------------------------------------------------------------------ C15
\* C15: at the disambiguation prompt with N candidates, an input that int()
\* reads as k, 1 <= k <= N, ends the loop: find_bibcode returns the bibcode of
\* the k-th candidate shown, so that the key is printed as NEW ENTRY and
\* appended to the list of that bibcode and of no other.
C15_ChoiceSelects ==
    [][\A c \in Inputs :
          LET i == int(c)
          IN  (i # << >> /\ i[1] \in 1..Len(entries) /\ Choice(c)) =>
                  LET b == entries[i[1]]
                  IN  /\ pc' = "loop"
                      /\ status'[key] = "NEW ENTRY"
                      /\ b \in DOMAIN to_retrieve'
                      /\ Last(to_retrieve'[b]) = key
                      /\ Len(to_retrieve'[b]) = Len(EntryOf(to_retrieve, b)) + 1
                      /\ \A o \in Bibcodes \ {b} : EntryOf(to_retrieve', o) = EntryOf(to_retrieve, o)
                      /\ not_found' = not_found]_vars

\* the second of two candidates was chosen: the only query for the key is the
\* author/year search, and the key is queued under the second candidate
C15_Witness ==
    /\ key # None
    /\ Len(entries) = 2
    /\ Len(queries) = 1
    /\ queries[1].field = "author"
    /\ status[key] = "NEW ENTRY"
    /\ entries[2] \in DOMAIN to_retrieve
    /\ key \in Range(to_retrieve[entries[2]])
    /\ entries[1] \notin DOMAIN to_retrieve

\* ------------------------------------------------------------------ C16
\* no two entries of the store s have URLs of the same bibcode
DistinctBibcodes(s) ==
    \A a \in DOMAIN s : \A b \in DOMAIN s :
        (a # b /\ extract_bibcode(s[a]) # None) => extract_bibcode(s[a]) # extract_bibcode(s[b])

\* C16: if no two entries of the loaded store refer to the same bibcode, no two
\* entries of the store a completed run has written refer to the same bibcode.
C16_NoDuplicateBibcodes ==
    (pc = "done" /\ DistinctBibcodes(loaded)) => DistinctBibcodes(file)

\* ------------------------------------------------------------------ C17
\* C17: after a completed run, every key printed as UPDATE to a bibcode has,
\* under its own entry-ID, the record fetched for that bibcode in place of its
\* stale entry, whatever other keys are queued under the bibcode.
C17_UpdateReplacesEntry ==
    pc = "done" =>
        \A k \in Keys :
            status[k] = "UPDATE" =>
                \E b \in DOMAIN to_retrieve :
                    /\ k \in Range(to_retrieve[b])
                    /\ EntryOf(file, k) = Fetched(b, k)
                    /\ EntryOf(file, k) # loaded[k]

\* ------------------------------------------------------------------ C18
\* C18: a pass of the disambiguation loop tests its input as an identifier
\* before anything else: when the input matches an identifier pattern its
\* lookup is the query the pass issues, and when the lookup returns a bibcode
\* the loop returns it (the key is queued under it).  An input that does not
\* resolve and that int() does not read as a number of 0..N (text, a negative
\* number, a number above N, nothing) leaves the loop where it is: the same
\* prompt waits again, with the same candidates and nothing else changed.
C18_ChoiceLoop ==
    [][\A c \in Inputs :
          Choice(c) =>
              LET resolves == id_type_of(c) # "" /\ Fresh' # None
              IN  /\ id_type_of(c) # "" =>
                        /\ Len(queries') = Len(queries) + 1
                        /\ Last(queries').field = id_type_of(c)
                        /\ Last(queries').value = Take(c, _re_id(id_type_of(c), c))
                  /\ id_type_of(c) = "" => queries' = queries
                  /\ resolves =>
                        /\ pc' = "loop"
                        /\ status'[key] = "NEW ENTRY"
                        /\ Fresh' \in DOMAIN to_retrieve'
                        /\ Last(to_retrieve'[Fresh']) = key
                  /\ (~resolves /\ (int(c) = << >> \/ int(c)[1] \notin 0..Len(entries))) =>
                        /\ pc' = "choose"
                        /\ UNCHANGED << key, entries, status, to_retrieve, not_found >>]_vars

\* the disambiguation prompt is waiting again, with its candidates, after an
\* arXiv id typed at it (the key itself is none) was looked up in vain
C18_Witness ==
    /\ pc = "choose"
    /\ entries # << >>
    /\ id_type_of(key) # "arxiv"
    /\ Last(queries).field = "arxiv"
    /\ Fresh = None

\* ------------------------------------------------------------------ C19
\* the author searches among the queries qs
AuthorQueries(qs) == LET IsAuthor(q) == q.field = "author" IN SelectSeq(qs, IsAuthor)
HasSpace(s) == \E i \in 1..Len(s) : s[i] = " "
\* the prefixes of _name_prefix the name begins with, spaces and case aside
MatchingPrefixes(name) ==
    {i \in 1..Len(_name_prefix) : StartsWith(lower(name), RemoveSpaces(_name_prefix[i]))}

\* C19: find_bibcode issues at most two author/year searches for a key.  A
\* second one is issued only when the first returned nothing and its author
\* has no space; its author is the first one with the longest matching prefix
\* split off by a space, it has the same year, and, since that author contains
\* a space, nothing follows it.  When the searches have returned nothing,
\* find_bibcode falls back to the identifier prompt with at most two queries
\* issued, and with one only when the author has a space or no prefix matches.
C19_PrefixRetry ==
    (sample.fn = "find_bibcode" /\ answer # << >>) =>
        LET f  == answer[1]
            aq == AuthorQueries(f.queries)
        IN  /\ Len(aq) <= 2
            /\ Len(aq) = 2 =>
                  LET name == aq[1].value
                  IN  /\ aq[1].result = << >>
                      /\ ~HasSpace(name)
                      /\ HasSpace(aq[2].value)
                      /\ aq[2].year = aq[1].year
                      /\ \E i \in MatchingPrefixes(name) :
                            /\ \A j \in MatchingPrefixes(name) :
                                  Len(_name_prefix[j]) <= Len(_name_prefix[i])
                            /\ aq[2].value = _name_prefix[i] \o << " " >> \o
                                  Drop(name, Len(RemoveSpaces(_name_prefix[i])))
            /\ (aq # << >> /\ aq[Len(aq)].result = << >>) =>
                  /\ ~f.at_once
                  /\ f.entries = << >>
                  /\ Len(f.queries) <= 2
                  /\ Len(aq) = 1 => (HasSpace(aq[1].value) \/ MatchingPrefixes(aq[1].value) = {})

\* find_bibcode("vanderWaals99") has searched for "vanderWaals" and then for
\* "van der Waals", both in 1999 and both in vain, and stands at the
\* identifier prompt
C19_Witness ==
    /\ Found(<< "v", "a", "n", "d", "e", "r", "W", "a", "a", "l", "s", "9", "9" >>)
    /\ Len(answer[1].queries) = 2
    /\ answer[1].queries[1].value = << "v", "a", "n", "d", "e", "r", "W", "a", "a", "l", "s" >>
    /\ answer[1].queries[2].value =
          << "v", "a", "n", " ", "d", "e", "r", " ", "W", "a", "a", "l", "s" >>
    /\ answer[1].queries[2].year = << "1", "9", "9", "9" >>
    /\ answer[1].queries[2].result = << >>
    /\ answer[1].entries = << >>
    /\ ~answer[1].at_once

\* ------------------------------------------------------------------ C20
\* C20: with update-checking enabled, a key of the store whose lookups (of
\* its stored URL, DOI and arXiv id, as far as the entry has them) have all
\* returned nothing has the status EXISTING and is not queued; the key has the
\* status UPDATE, and is queued, exactly when the lookup has returned a
\* bibcode and that bibcode is not the one of the stored URL.
C20_NoResultIsExisting ==
    (update /\ key # None /\ key \in DOMAIN loaded /\ status[key] # "") =>
        /\ (\A i \in 1..Len(queries) : queries[i].result = None) =>
              status[key] = "EXISTING" /\ ~Queued(key)
        /\ status[key] = "UPDATE" <=>
              (Fresh # None /\ Fresh # extract_bibcode(loaded[key]))
        /\ Queued(key) <=> status[key] = "UPDATE"

\* the update check of a stored key has looked up its URL and its DOI, both
\* in vain, and the key is printed as EXISTING
C20_Witness ==
    /\ update
    /\ key # None /\ key \in DOMAIN loaded
    /\ Len(queries) = 2
    /\ \A i \in 1..Len(queries) : queries[i].result = None
    /\ status[key] = "EXISTING"
    /\ ~Queued(key)

====
